---------------------------- MODULE Spec2Model ----------------------------
(***************************************************************************)
(* Model of the two seeding scripts of mangalm_sales_assist:               *)
(*   create_stores.py        the Store Synthesizer                         *)
(*   populate_all_tables.py  the Product/Invoice Populator                 *)
(*                                                                         *)
(* Python strings are sequences of one-character strings.  Floats parsed   *)
(* from the CSV are kept exactly, as integers counting hundredths.  The    *)
(* 64-bit prefix of an MD5 digest is kept exactly, as three base-10^6      *)
(* limbs <<a, b, c>> standing for a * 10^12 + b * 10^6 + c.                *)
(***************************************************************************)
EXTENDS Integers, Sequences, FiniteSets, TLC

VARIABLES
  job,            \* which script runs: "stores" or "populate"
  pc,             \* position of the script
  reader,         \* csv.DictReader: the rows not yet read
  consumed,       \* history: the rows already read, in file order
  md5,            \* hashlib.md5, first 8 bytes big-endian: name -> limbs
  customers,      \* create_stores.py: the set of customer names
  todo,           \* create_stores.py: what is left of sorted(customers)
  values,         \* create_stores.py: the VALUES tuples built so far
  out,            \* create_stores.py: the VALUES tuples printed
  products,       \* populate: the dict, as its items in insertion order
  invoice_items,  \* populate: the list of collected invoice items
  idx,            \* populate: index of the next element of the running loop
  order_map,      \* populate: the dict order_number -> id, in insertion order
  inserted_items, \* populate: the counter printed at line 128
  attempts,       \* history: the cur.execute calls issued, in order
  db,             \* the database as committed (durable)
  tx,             \* the database as the open transaction of conn sees it
  txFailed,       \* the open transaction is in PostgreSQL's aborted state
  commits,        \* history: number of conn.commit() calls made
  scan,           \* the recommendation statement's scan of the cross join
  crashed         \* "no", or the position at which the process was killed

vars == <<job, pc, reader, consumed, md5, customers, todo, values, out,
          products, invoice_items, idx, order_map, inserted_items, attempts,
          db, tx, txFailed, commits, scan, crashed>>

-----------------------------------------------------------------------------
(* Strings *)

\* The characters of the model, in code-point order.
Chars ==
  << " ", "$", "'", ",", "-", ".", "/",
     "0", "1", "2", "3", "4", "5", "6", "7", "8", "9",
     "A", "B", "D", "F", "I", "N", "R", "S", "V", "X",
     "a", "b", "c", "d", "e", "i", "l", "n", "o", "r", "s", "v", "x" >>

\* ord(c), up to an order-preserving renumbering.
Ord(c) == CHOOSE i \in 1..Len(Chars) : Chars[i] = c

\* str.lower() on one character.
LowerChar(c) ==
  CASE c = "A" -> "a" [] c = "B" -> "b" [] c = "D" -> "d" [] c = "F" -> "f"
    [] c = "I" -> "i" [] c = "N" -> "n" [] c = "R" -> "r" [] c = "S" -> "s"
    [] c = "V" -> "v" [] c = "X" -> "x" [] OTHER -> c

Lower(s) == [i \in 1..Len(s) |-> LowerChar(s[i])]

IsSpace(c) == c = " "

\* str.strip(): drop leading and trailing whitespace.
Strip(s) ==
  LET keep == {i \in 1..Len(s) : ~IsSpace(s[i])}
  IN  IF keep = {} THEN <<>>
      ELSE LET lo == CHOOSE i \in keep : \A j \in keep : i <= j
               hi == CHOOSE i \in keep : \A j \in keep : j <= i
           IN  SubSeq(s, lo, hi)

\* `needle in hay` on strings.
Contains(hay, needle) ==
  \E i \in 0..(Len(hay) - Len(needle)) :
     \A j \in 1..Len(needle) : hay[i + j] = needle[j]

\* s.replace(c, t) for a one-character c.
RECURSIVE ReplaceChar(_, _, _)
ReplaceChar(s, c, t) ==
  IF s = <<>> THEN <<>>
  ELSE (IF Head(s) = c THEN t ELSE <<Head(s)>>) \o ReplaceChar(Tail(s), c, t)

\* s < t in Python's string order (code points, a proper prefix first).
RECURSIVE StrLess(_, _)
StrLess(s, t) ==
  IF t = <<>> THEN FALSE
  ELSE IF s = <<>> THEN TRUE
  ELSE IF Head(s) = Head(t) THEN StrLess(Tail(s), Tail(t))
  ELSE Ord(Head(s)) < Ord(Head(t))

\* list(S) in an order that is not the sorted one: descending.
RECURSIVE SortedDescending(_)
SortedDescending(S) ==
  IF S = {} THEN <<>>
  ELSE LET m == CHOOSE a \in S : \A b \in S \ {a} : ~(a = b) /\ ~StrLess(a, b)
       IN  <<m>> \o SortedDescending(S \ {m})

\* sorted(S) for a set of strings.
RECURSIVE Sorted(_)
Sorted(S) ==
  IF S = {} THEN <<>>
  ELSE LET m == CHOOSE a \in S : \A b \in S \ {a} : StrLess(a, b)
       IN  <<m>> \o Sorted(S \ {m})

-----------------------------------------------------------------------------
(* Numbers read from the CSV *)

Digits == <<"0", "1", "2", "3", "4", "5", "6", "7", "8", "9">>

IsDigit(c) == \E d \in 1..10 : Digits[d] = c

DigitVal(c) == (CHOOSE d \in 1..10 : Digits[d] = c) - 1

RECURSIVE DigitsVal(_)
DigitsVal(s) ==
  IF s = <<>> THEN 0 ELSE 10 * DigitsVal(SubSeq(s, 1, Len(s) - 1)) + DigitVal(s[Len(s)])

\* float(s), for the decimal literals Python accepts without an exponent:
\* surrounding whitespace, an optional sign, digits with at most one point and
\* at least one digit.  ok = FALSE stands for ValueError.  val counts
\* hundredths, exact for literals of at most two fractional digits.
ParseFloat(s) ==
  LET t      == Strip(s)
      signed == t # <<>> /\ t[1] \in {"-", "+"}
      body   == IF signed THEN Tail(t) ELSE t
      dots   == {i \in 1..Len(body) : body[i] = "."}
      wellFormed ==
        /\ \A i \in 1..Len(body) : IsDigit(body[i]) \/ body[i] = "."
        /\ Cardinality(dots) <= 1
        /\ \E i \in 1..Len(body) : IsDigit(body[i])
      dot    == IF dots = {} THEN Len(body) + 1 ELSE CHOOSE i \in dots : TRUE
      whole  == SubSeq(body, 1, dot - 1)
      frac   == SubSeq(body, dot + 1, Len(body))
      mag    == 100 * DigitsVal(whole) + (100 * DigitsVal(frac)) \div (10 ^ Len(frac))
  IN  IF wellFormed
      THEN [ok |-> TRUE, val |-> IF signed /\ t[1] = "-" THEN 0 - mag ELSE mag]
      ELSE [ok |-> FALSE, val |-> 0]

\* field.replace('$', '').replace(',', '')
StripCurrency(field) == ReplaceChar(ReplaceChar(field, "$", <<>>), ",", <<>>)

\* Lines 32-35: the price of a new product, 0.0 when float() raises.
ParsePrice(field) ==
  LET r == ParseFloat(StripCurrency(field))
  IN  IF r.ok THEN r.val ELSE 0

\* Lines 48-53: quantity and total are parsed in one try block; when either
\* float() raises, both take the defaults 1 (100 hundredths) and 0.
ParseQuantityTotal(qfield, tfield) ==
  LET q == ParseFloat(qfield)
      t == ParseFloat(StripCurrency(tfield))
  IN  IF q.ok /\ t.ok
      THEN [quantity |-> q.val, total |-> t.val]
      ELSE [quantity |-> 100, total |-> 0]

-----------------------------------------------------------------------------
(* Fields inferred from a name *)

FoodWords ==
  { <<"r","i","c","e">>, <<"d","a","l">>, <<"f","l","o","u","r">>,
    <<"o","i","l">>, <<"s","p","i","c","e">> }

\* Line 41.
Category(item_name) ==
  IF \E w \in FoodWords : Contains(Lower(item_name), w) THEN "Food" ELSE "Grocery"

\* Line 42: the first whitespace-delimited token of a name holding a space.
Brand(item_name) ==
  IF Contains(item_name, <<" ">>)
  THEN LET t  == Strip(item_name)
           sp == {i \in 1..Len(t) : IsSpace(t[i])}
       IN  IF sp = {} THEN t
           ELSE SubSeq(t, 1, (CHOOSE i \in sp : \A j \in sp : i <= j) - 1)
  ELSE <<"G","e","n","e","r","i","c">>

\* create_stores.py line 24.
SqlName(name) == ReplaceChar(name, "'", <<"'", "'">>)

\* create_stores.py line 27.
City(name) ==
  IF Contains(name, <<"S","F">>) \/ Contains(name, <<"S","a","n">>)
  THEN "San Francisco"
  ELSE IF Contains(name, <<"P","o","r","t","l","a","n","d">>) THEN "Portland"
  ELSE IF Contains(name, <<"S","e","a","t","t","l","e">>) THEN "Seattle"
  ELSE "Sacramento"

\* create_stores.py line 28.
State(city) ==
  IF city \in {"San Francisco", "Sacramento"} THEN "CA"
  ELSE IF city = "Portland" THEN "OR" ELSE "WA"

\* create_stores.py line 31: sql_name.lower().replace(' ', '.')
EmailLocal(sql_name) == ReplaceChar(Lower(sql_name), " ", <<".">>)

-----------------------------------------------------------------------------
(* Identifier derivation *)

Limb == 10^6

\* n % (10**18) on limbs: 10^18 = 10^6 * 10^12.
Mod1e18(h) == <<h[1] % Limb, h[2], h[3]>>

\* The leading limb of 4261931000000000000 (its other limbs are 0).
StoreIdOffset == 4261931

\* populate_all_tables.py lines 28-29.
ProductId(h) == Mod1e18(h)

\* StoreId without the offset.
StoreIdNoOffset(h) == Mod1e18(h)

\* create_stores.py lines 19-21.
StoreId(h) == <<Mod1e18(h)[1] + StoreIdOffset, Mod1e18(h)[2], Mod1e18(h)[3]>>

\* The integer order on limb triples.
LimbLess(x, y) ==
  \/ x[1] < y[1]
  \/ x[1] = y[1] /\ x[2] < y[2]
  \/ x[1] = y[1] /\ x[2] = y[2] /\ x[3] < y[3]

-----------------------------------------------------------------------------
(* create_stores.py *)

\* Lines 8-11: one iteration of the read loop.
ReadCustomerRow ==
  /\ job = "stores" /\ pc = "read" /\ reader # <<>>
  /\ LET name == Strip(Head(reader).cust)
     IN  customers' = IF name # <<>> THEN customers \cup {name} ELSE customers
  /\ reader' = Tail(reader)
  /\ consumed' = Append(consumed, Head(reader))
  /\ UNCHANGED <<job, pc, md5, todo, values, out, products, invoice_items, idx,
                 order_map, inserted_items, attempts, db, tx, txFailed, commits,
                 scan, crashed>>

\* Lines 13-17: the header is printed and the loop over sorted(customers) starts.
PrintHeader ==
  /\ job = "stores" /\ pc = "read" /\ reader = <<>>
  /\ out' = [out EXCEPT !.creating = Cardinality(customers)]
  /\ values' = <<>>
  /\ todo' = Sorted(customers)
  /\ pc' = "emit"
  /\ UNCHANGED <<job, reader, consumed, md5, customers, products, invoice_items,
                 idx, order_map, inserted_items, attempts, db, tx, txFailed,
                 commits, scan, crashed>>

\* Lines 18-31: the tuple built for one customer name.
StoreTuple(name) ==
  [ id    |-> StoreId(md5[name]),
    name  |-> SqlName(name),
    city  |-> City(name),
    state |-> State(City(name)),
    email |-> EmailLocal(SqlName(name)) ]

\* Lines 17-31: one iteration of the emission loop.
EmitStore ==
  /\ job = "stores" /\ pc = "emit" /\ todo # <<>>
  /\ values' = Append(values, StoreTuple(Head(todo)))
  /\ todo' = Tail(todo)
  /\ UNCHANGED <<job, pc, reader, consumed, md5, customers, out, products,
                 invoice_items, idx, order_map, inserted_items, attempts, db, tx,
                 txFailed, commits, scan, crashed>>

\* Line 33.
PrintValues ==
  /\ job = "stores" /\ pc = "emit" /\ todo = <<>>
  /\ out' = [out EXCEPT !.rows = values]
  /\ pc' = "done"
  /\ UNCHANGED <<job, reader, consumed, md5, customers, todo, values, products,
                 invoice_items, idx, order_map, inserted_items, attempts, db, tx,
                 txFailed, commits, scan, crashed>>

NextStores == ReadCustomerRow \/ PrintHeader \/ EmitStore \/ PrintValues

-----------------------------------------------------------------------------
(* populate_all_tables.py: the read loop *)

ProductNames == {products[i].name : i \in 1..Len(products)}

\* products[name]
ProductOf(name) ==
  products[CHOOSE i \in 1..Len(products) : products[i].name = name]

\* Lines 27-43: the entry built for a name seen for the first time.
NewProduct(item_name, row) ==
  [ id       |-> ProductId(md5[item_name]),
    name     |-> item_name,
    price    |-> ParsePrice(row.price),
    category |-> Category(item_name),
    brand    |-> Brand(item_name) ]

\* AddProduct without the test `item_name not in products`.
AddProductNoDedup(item_name, row) ==
  IF item_name # <<>>
  THEN Append(products, NewProduct(item_name, row))
  ELSE products

\* AddProduct assigning products[item_name] on every row: a later row
\* replaces the entry in place.
AddProductOverwrite(item_name, row) ==
  IF item_name = <<>> THEN products
  ELSE IF item_name \notin ProductNames
  THEN Append(products, NewProduct(item_name, row))
  ELSE [i \in 1..Len(products) |->
          IF products[i].name = item_name THEN NewProduct(item_name, row)
          ELSE products[i]]

\* Lines 25-43: the products dict after a row.
AddProduct(item_name, row) ==
  IF item_name # <<>> /\ item_name \notin ProductNames
  THEN Append(products, NewProduct(item_name, row))
  ELSE products

\* CollectItem skipping a row whose quantity or total does not parse.
CollectItemDropMalformed(item_name, row, prods) ==
  IF row.inv # <<>> /\ item_name # <<>>
     /\ ParseFloat(row.qty).ok /\ ParseFloat(StripCurrency(row.total)).ok
  THEN LET qt == ParseQuantityTotal(row.qty, row.total)
           p  == prods[CHOOSE i \in 1..Len(prods) : prods[i].name = item_name]
       IN  Append(invoice_items,
                  [ invoice_id   |-> row.inv,
                    product_name |-> item_name,
                    quantity     |-> qt.quantity,
                    price        |-> p.price,
                    total        |-> qt.total ])
  ELSE invoice_items

\* CollectItem taking the unit price from the item's own row.
CollectItemOwnPrice(item_name, row, prods) ==
  IF row.inv # <<>> /\ item_name # <<>>
  THEN LET qt == ParseQuantityTotal(row.qty, row.total)
       IN  Append(invoice_items,
                  [ invoice_id   |-> row.inv,
                    product_name |-> item_name,
                    quantity     |-> qt.quantity,
                    price        |-> ParsePrice(row.price),
                    total        |-> qt.total ])
  ELSE invoice_items

\* Lines 46-61: the invoice_items list after a row, given the dict after it.
CollectItem(item_name, row, prods) ==
  IF row.inv # <<>> /\ item_name # <<>>
  THEN LET qt == ParseQuantityTotal(row.qty, row.total)
           p  == prods[CHOOSE i \in 1..Len(prods) : prods[i].name = item_name]
       IN  Append(invoice_items,
                  [ invoice_id   |-> row.inv,
                    product_name |-> item_name,
                    quantity     |-> qt.quantity,
                    price        |-> p.price,
                    total        |-> qt.total ])
  ELSE invoice_items

\* Lines 23-61: one iteration of the read loop.
ReadRow ==
  /\ job = "populate" /\ pc = "read" /\ reader # <<>>
  /\ LET row       == Head(reader)
         item_name == Strip(row.item)
     IN  /\ products' = AddProduct(item_name, row)
         /\ invoice_items' = CollectItem(item_name, row, AddProduct(item_name, row))
  /\ reader' = Tail(reader)
  /\ consumed' = Append(consumed, Head(reader))
  /\ UNCHANGED <<job, pc, md5, customers, todo, values, out, idx, order_map,
                 inserted_items, attempts, db, tx, txFailed, commits, scan,
                 crashed>>

\* Lines 63-68: the file is closed, the counts are printed, the insert loop starts.
StartProducts ==
  /\ job = "populate" /\ pc = "read" /\ reader = <<>>
  /\ pc' = "products"
  /\ idx' = 1
  /\ UNCHANGED <<job, reader, consumed, md5, customers, todo, values, out,
                 products, invoice_items, order_map, inserted_items, attempts,
                 db, tx, txFailed, commits, scan, crashed>>

-----------------------------------------------------------------------------
(* populate_all_tables.py: the database phases.                            *)
(* conn is a psycopg2 connection with autocommit off: statements run in a  *)
(* transaction that conn.commit() ends.  A statement that raises leaves    *)
(* the transaction aborted: PostgreSQL then rejects every later statement  *)
(* of it, and ends it by a rollback when asked to commit.                  *)

\* INSERT INTO products ... ON CONFLICT (id) DO NOTHING (lines 70-84).
\* The columns description, cost and stock, which nothing reads, are left out.
WithProduct(table, product) ==
  IF \E r \in table : r.id = product.id THEN table ELSE table \cup {product}

\* Lines 68-86: one iteration of the product insert loop.  The statement
\* succeeds or raises; the exception is caught and printed.
InsertProduct ==
  /\ job = "populate" /\ pc = "products" /\ idx <= Len(products)
  /\ attempts' = Append(attempts, [table |-> "products", at |-> idx,
                                   name |-> products[idx].name])
  /\ \/ /\ ~txFailed
        /\ tx' = [tx EXCEPT !.products = WithProduct(@, products[idx])]
        /\ UNCHANGED txFailed
     \/ /\ txFailed' = TRUE
        /\ UNCHANGED tx
  /\ idx' = idx + 1
  /\ UNCHANGED <<job, pc, reader, consumed, md5, customers, todo, values, out,
                 products, invoice_items, order_map, inserted_items, db,
                 commits, scan, crashed>>

\* conn.commit(): the open transaction becomes durable, or is rolled back
\* when it is aborted.
Committed == IF txFailed THEN db ELSE tx

\* Lines 88-89.
CommitProducts ==
  /\ job = "populate" /\ pc = "products" /\ idx > Len(products)
  /\ db' = Committed
  /\ tx' = Committed
  /\ txFailed' = FALSE
  /\ commits' = commits + 1
  /\ pc' = "orders"
  /\ UNCHANGED <<job, reader, consumed, md5, customers, todo, values, out,
                 products, invoice_items, idx, order_map, inserted_items,
                 attempts, scan, crashed>>

\* Line 93: {row[1]: row[0] for row in rows}, as the dict's items in
\* insertion order: a repeated order number keeps its first position and
\* takes the last id.
RECURSIVE OrderMapOf(_)
OrderMapOf(rows) ==
  IF rows = <<>> THEN <<>>
  ELSE LET init == OrderMapOf(SubSeq(rows, 1, Len(rows) - 1))
           last == rows[Len(rows)]
       IN  IF \E i \in 1..Len(init) : init[i].num = last.num
           THEN [i \in 1..Len(init) |->
                   IF init[i].num = last.num THEN last ELSE init[i]]
           ELSE Append(init, last)

\* Lines 92-97.
SelectOrders ==
  /\ job = "populate" /\ pc = "orders"
  /\ order_map' = OrderMapOf(tx.orders)
  /\ inserted_items' = 0
  /\ idx' = 1
  /\ pc' = "items"
  /\ UNCHANGED <<job, reader, consumed, md5, customers, todo, values, out,
                 products, invoice_items, attempts, db, tx, txFailed, commits,
                 scan, crashed>>

\* Line 102: the test applied to one entry of order_map.
Matches(invoice_id, order_num) ==
  Contains(order_num, invoice_id) \/ Contains(invoice_id, order_num)

\* FindOrder without the break of line 104: the last matching entry wins.
FindOrderLast(invoice_id, omap) ==
  LET hits == {i \in 1..Len(omap) : Matches(invoice_id, omap[i].num)}
  IN  IF hits = {} THEN [found |-> FALSE, id |-> 0]
      ELSE [found |-> TRUE,
            id |-> omap[CHOOSE i \in hits : \A j \in hits : j <= i].id]

\* Lines 100-104: order_id after the matching loop; found = FALSE is None.
FindOrder(invoice_id, omap) ==
  LET hits == {i \in 1..Len(omap) : Matches(invoice_id, omap[i].num)}
  IN  IF hits = {} THEN [found |-> FALSE, id |-> 0]
      ELSE [found |-> TRUE,
            id |-> omap[CHOOSE i \in hits : \A j \in hits : i <= j].id]

\* Line 106: `if order_id and item['product_name'] in products`.
ShouldInsert(item, omap) ==
  LET o == FindOrder(item.invoice_id, omap)
  IN  o.found /\ o.id # 0 /\ item.product_name \in ProductNames

\* Lines 108-122: the row sent for an invoice item.
ItemRow(item, omap) ==
  [ order_id     |-> FindOrder(item.invoice_id, omap).id,
    product_id   |-> ProductOf(item.product_name).id,
    product_name |-> item.product_name,
    quantity     |-> item.quantity,
    unit_price   |-> item.price,
    total_price  |-> item.total ]

\* Lines 98-125: one iteration of the invoice item loop.  The statement adds
\* the row, or skips it (ON CONFLICT DO NOTHING, decided by the uniqueness
\* constraints of the table), or raises; the exception is caught and dropped.
\* The counter counts the statements that returned.
InsertInvoiceItem ==
  /\ job = "populate" /\ pc = "items" /\ idx <= Len(invoice_items)
  /\ LET item == invoice_items[idx]
     IN  IF ShouldInsert(item, order_map)
         THEN /\ attempts' = Append(attempts,
                    [table |-> "invoice_items", at |-> idx,
                     name |-> item.product_name,
                     order_id |-> ItemRow(item, order_map).order_id])
              /\ \/ /\ ~txFailed
                    /\ tx' = [tx EXCEPT !.items = Append(@, ItemRow(item, order_map))]
                    /\ inserted_items' = inserted_items + 1
                    /\ UNCHANGED txFailed
                 \/ /\ ~txFailed
                    /\ inserted_items' = inserted_items + 1
                    /\ UNCHANGED <<tx, txFailed>>
                 \/ /\ txFailed' = TRUE
                    /\ UNCHANGED <<tx, inserted_items>>
         ELSE UNCHANGED <<attempts, tx, inserted_items, txFailed>>
  /\ idx' = idx + 1
  /\ UNCHANGED <<job, pc, reader, consumed, md5, customers, todo, values, out,
                 products, invoice_items, order_map, db, commits, scan, crashed>>

\* Lines 127-128.
CommitItems ==
  /\ job = "populate" /\ pc = "items" /\ idx > Len(invoice_items)
  /\ db' = Committed
  /\ tx' = Committed
  /\ txFailed' = FALSE
  /\ commits' = commits + 1
  /\ pc' = "recos"
  /\ UNCHANGED <<job, reader, consumed, md5, customers, todo, values, out,
                 products, invoice_items, idx, order_map, inserted_items,
                 attempts, scan, crashed>>

-----------------------------------------------------------------------------
(* populate_all_tables.py: the recommendation statement (lines 132-156).   *)
(* The server scans orders CROSS JOIN products; i counts the combinations  *)
(* scanned, emitted the rows that passed WHERE RANDOM() < 0.1, inserted    *)
(* the emitted rows that ON CONFLICT DO NOTHING did not skip.              *)

\* LIMIT 500 (line 154).
RowLimit == 500

CrossJoinSize == Len(tx.orders) * Cardinality(tx.products)

\* The i-th combination (from 0) as <<order, product>>, each counted from 1.
Combination(i) ==
  <<(i \div Cardinality(tx.products)) + 1, (i % Cardinality(tx.products)) + 1>>

\* Line 132: the statement starts.
StartRecos ==
  /\ job = "populate" /\ pc = "recos"
  /\ scan' = [i |-> 0, emitted |-> 0, inserted |-> 0, last |-> <<0, 0>>]
  /\ pc' = "scan"
  /\ UNCHANGED <<job, reader, consumed, md5, customers, todo, values, out,
                 products, invoice_items, idx, order_map, inserted_items,
                 attempts, db, tx, txFailed, commits, crashed>>

\* ScanOpen without LIMIT 500.
ScanOpenNoLimit == scan.i < CrossJoinSize

\* The scan may go on: combinations are left and the limit is not reached.
ScanOpen == scan.i < CrossJoinSize /\ scan.emitted < RowLimit

\* One combination of the cross join: the random filter drops it or keeps it.
\* scan.last is the combination the step kept, <<0, 0>> when it dropped one.
ScanRow ==
  /\ job = "populate" /\ pc = "scan" /\ ScanOpen
  /\ \/ scan' = [scan EXCEPT !.i = @ + 1, !.last = <<0, 0>>]
     \/ scan' = [ i        |-> scan.i + 1,
                  emitted  |-> scan.emitted + 1,
                  inserted |-> IF Combination(scan.i) \in tx.recoKeys
                               THEN scan.inserted ELSE scan.inserted + 1,
                  last     |-> Combination(scan.i) ]
  /\ UNCHANGED <<job, pc, reader, consumed, md5, customers, todo, values, out,
                 products, invoice_items, idx, order_map, inserted_items,
                 attempts, db, tx, txFailed, commits, crashed>>

\* The statement returns; cur.rowcount is the number of rows inserted.
FinishRecos ==
  /\ job = "populate" /\ pc = "scan" /\ ~ScanOpen
  /\ tx' = [tx EXCEPT !.recos = @ + scan.inserted]
  /\ pc' = "recocommit"
  /\ UNCHANGED <<job, reader, consumed, md5, customers, todo, values, out,
                 products, invoice_items, idx, order_map, inserted_items,
                 attempts, db, txFailed, commits, scan, crashed>>

\* Lines 157-158.
CommitRecos ==
  /\ job = "populate" /\ pc = "recocommit"
  /\ db' = Committed
  /\ tx' = Committed
  /\ txFailed' = FALSE
  /\ commits' = commits + 1
  /\ pc' = "final"
  /\ UNCHANGED <<job, reader, consumed, md5, customers, todo, values, out,
                 products, invoice_items, idx, order_map, inserted_items,
                 attempts, scan, crashed>>

\* Lines 160-173: the final counts are read and printed, the connection closed.
FinalCounts ==
  /\ job = "populate" /\ pc = "final"
  /\ out' = [ products |-> Cardinality(tx.products),
              invoice_items |-> Len(tx.items),
              upselling_recommendations |-> tx.recos,
              orders |-> Len(tx.orders) ]
  /\ pc' = "done"
  /\ UNCHANGED <<job, reader, consumed, md5, customers, todo, values, products,
                 invoice_items, idx, order_map, inserted_items, attempts, db,
                 tx, txFailed, commits, scan, crashed>>

\* The process dies (a kill, a lost connection, an unhandled exception): the
\* server rolls back the open transaction.
Crash ==
  /\ job = "populate" /\ pc \notin {"done", "crashed"}
  /\ crashed' = pc
  /\ pc' = "crashed"
  /\ tx' = db
  /\ txFailed' = FALSE
  /\ UNCHANGED <<job, reader, consumed, md5, customers, todo, values, out,
                 products, invoice_items, idx, order_map, inserted_items,
                 attempts, db, commits, scan>>

NextPopulate ==
  \/ ReadRow \/ StartProducts \/ InsertProduct \/ CommitProducts
  \/ SelectOrders \/ InsertInvoiceItem \/ CommitItems
  \/ StartRecos \/ ScanRow \/ FinishRecos \/ CommitRecos \/ FinalCounts

Next == NextStores \/ NextPopulate

-----------------------------------------------------------------------------
(* Inputs *)

\* The longest CSV file, in rows.
MaxRows == 3

sBlank   == <<" ">>
sRice    == <<"R","i","c","e">>
sRicePad == <<" ","R","i","c","e"," ">>
sDal     == <<"D","a","l">>
sB       == <<"B">>
sBo      == <<"B","o">>
sBoPad   == <<" ","B","o">>
sAl      == <<"a","l">>
sInv100  == <<"I","N","V","-","1","0","0">>
sInv200  == <<"I","N","V","-","2","0","0">>
sInv1000X == <<"I","N","V","-","1","0","0","0","X">>
sPrice1234 == <<"$","1",",","2","3","4",".","5","0">>
sPriceNA == <<"N","/","A">>
sSeven   == <<"7">>
sTwo     == <<"2">>
sThree   == <<"$","3">>

\* A row of the file, as csv.DictReader yields it: a string for each of the
\* six columns the scripts read.
DefaultRow ==
  [cust |-> sBo, item |-> sRice, price |-> sSeven, inv |-> <<>>,
   qty |-> sTwo, total |-> sThree]

\* Every file of at most n rows drawn from rows.
Files(rows, n) == UNION {[1..k -> rows] : k \in 0..n}

\* The state after construction: the file is open, nothing is read.
InitWith(j, file, h, database) ==
  /\ job = j /\ pc = "read"
  /\ reader = file /\ consumed = <<>>
  /\ md5 = h
  /\ customers = {} /\ todo = <<>> /\ values = <<>>
  /\ out = [creating |-> 0, rows |-> <<>>]
  /\ products = <<>> /\ invoice_items = <<>>
  /\ idx = 0 /\ order_map = <<>> /\ inserted_items = 0
  /\ attempts = <<>>
  /\ db = database /\ tx = database /\ txFailed = FALSE /\ commits = 0
  /\ scan = [i |-> 0, emitted |-> 0, inserted |-> 0, last |-> <<0, 0>>]
  /\ crashed = "no"

\* A database: the tables the Populator touches, and recoKeys, the
\* combinations upselling_recommendations rejects as duplicates.
Database(orders, prods, keys) ==
  [products |-> prods, items |-> <<>>, recos |-> Cardinality(keys),
   orders |-> orders,
   recoKeys |-> keys]

hZero  == <<0, 0, 0>>
hBelow == <<999999, 999999, 999999>>
hAt    == <<1000000, 0, 0>>
hWrap  == <<4261931, 0, 0>>
hMax   == <<18446744, 73709, 551615>>

\* Digest prefixes for the names of the files below: without a collision,
\* and with one (of Rice with Dal, of B with Bo).
Md5Distinct ==
  (sRice :> hBelow) @@ (sDal :> hAt) @@ (sB :> hMax) @@ (sBo :> hZero)
    @@ (sAl :> hWrap)

Md5Colliding ==
  (sRice :> hAt) @@ (sDal :> hAt) @@ (sB :> hWrap) @@ (sBo :> hWrap)
    @@ (sAl :> hBelow)

Md5Samples == {Md5Distinct, Md5Colliding}

CustSamples == {<<>>, sBlank, sB, sBo, sBoPad, sAl}

StoreRows == {[DefaultRow EXCEPT !.cust = c] : c \in CustSamples}

ProductRows ==
  { [DefaultRow EXCEPT !.item = sBlank],
    [DefaultRow EXCEPT !.item = sRice, !.price = sSeven],
    [DefaultRow EXCEPT !.item = sRice, !.price = sPrice1234, !.inv = sInv100],
    [DefaultRow EXCEPT !.item = sRice, !.price = sPriceNA],
    [DefaultRow EXCEPT !.item = sRicePad, !.price = sPriceNA],
    [DefaultRow EXCEPT !.item = sDal, !.price = sSeven, !.inv = sInv100],
    [DefaultRow EXCEPT !.item = sDal, !.price = sPriceNA] }

OneOrder == <<[id |-> 1, num |-> sInv100]>>

InitStores ==
  \E file \in Files(StoreRows, MaxRows), h \in Md5Samples :
     InitWith("stores", file, h, Database(<<>>, {}, {}))

InitPopulate ==
  \E file \in Files(ProductRows, MaxRows) :
     InitWith("populate", file, Md5Distinct, Database(OneOrder, {}, {}))

Init == InitStores \/ InitPopulate

sX == <<"x">>

\* Rows for the invoice item claims: names blank or not, invoice ids empty,
\* matched or unmatched, numeric fields that parse or do not.
ItemRows ==
  { [DefaultRow EXCEPT !.item = sBlank, !.inv = sInv100],
    [DefaultRow EXCEPT !.item = sRice, !.inv = sInv100],
    [DefaultRow EXCEPT !.item = sRice, !.price = sPrice1234, !.inv = sInv100,
                       !.qty = sX],
    [DefaultRow EXCEPT !.item = sRice, !.price = sPriceNA, !.inv = sInv200,
                       !.total = sPriceNA],
    [DefaultRow EXCEPT !.item = sDal] }

\* Orders tables for the invoice item claims; the second holds an order
\* whose id is 0.
ItemOrderTables ==
  { OneOrder,
    <<[id |-> 0, num |-> sInv200], [id |-> 1, num |-> sInv100]>> }

InitItems ==
  \E file \in Files(ItemRows, MaxRows), orders \in ItemOrderTables :
     InitWith("populate", file, Md5Distinct, Database(orders, {}, {}))

SpecItems == InitItems /\ [][NextPopulate]_vars

\* The longest orders table, in rows, of the matcher's specification.
MaxOrders == 2

s100 == <<"1","0","0">>

\* One-row files whose invoice id is contained in an order number, contains
\* one, or neither.
MatchFiles ==
  { <<[DefaultRow EXCEPT !.inv = i]>> : i \in {sInv100, sInv1000X, s100, sX} }

OrderRowSamples ==
  { [id |-> 1, num |-> sInv100], [id |-> 2, num |-> sInv200],
    [id |-> 3, num |-> sInv100], [id |-> 0, num |-> sInv1000X] }

InitMatch ==
  \E file \in MatchFiles, orders \in Files(OrderRowSamples, MaxOrders) :
     InitWith("populate", file, Md5Distinct, Database(orders, {}, {}))

SpecMatch == InitMatch /\ [][NextPopulate]_vars

h2Pow63 == <<9223372, 36854, 775808>>

\* 64-bit digest prefixes: 0, 10^18 - 1, 10^18, the store offset, 2^63, 2^64 - 1.
HashSamples == {hZero, hBelow, hAt, hWrap, h2Pow63, hMax}

IdNames == {sRice, sDal}

IdRows == {[DefaultRow EXCEPT !.cust = n, !.item = n, !.inv = sInv100] : n \in IdNames}

InitIds ==
  \E j \in {"stores", "populate"}, file \in Files(IdRows, 2),
     h \in [IdNames -> HashSamples] :
     InitWith(j, file, h, Database(OneOrder, {}, {}))

SpecIds == InitIds /\ [][Next]_vars

\* The tables of the recommendation statement's specification: a cross join
\* of BigOrders * BigProducts combinations, more than LIMIT 500 lets through.
BigOrders == 21
BigProducts == 24

OrdersTable(n) == [i \in 1..n |-> [id |-> i, num |-> sX]]

ProductsTable(n) ==
  { [id |-> <<0, 0, i>>, name |-> sX, price |-> 700,
     category |-> "Grocery", brand |-> sX] : i \in 1..n }

\* The Populator on a file that holds only its header, after the commit of
\* line 127: nothing was read, built or inserted, and the tables are those
\* the database held.
InitReco ==
  \E t \in { <<2, 3, {}>>, <<2, 3, {<<1, 2>>}>>,
              <<BigOrders, BigProducts, {<<1, 1>>}>> } :
     LET database == Database(OrdersTable(t[1]), ProductsTable(t[2]), t[3])
     IN  /\ job = "populate" /\ pc = "recos"
         /\ reader = <<>> /\ consumed = <<>>
         /\ md5 = Md5Distinct
         /\ customers = {} /\ todo = <<>> /\ values = <<>>
         /\ out = [creating |-> 0, rows |-> <<>>]
         /\ products = <<>> /\ invoice_items = <<>>
         /\ idx = 1 /\ order_map = OrderMapOf(database.orders)
         /\ inserted_items = 0 /\ attempts = <<>>
         /\ db = database /\ tx = database /\ txFailed = FALSE /\ commits = 2
         /\ scan = [i |-> 0, emitted |-> 0, inserted |-> 0, last |-> <<0, 0>>]
         /\ crashed = "no"

NextReco == StartRecos \/ ScanRow \/ FinishRecos \/ CommitRecos \/ FinalCounts

SpecReco == InitReco /\ [][NextReco]_vars

\* The Populator with a process that may die at any point of the run.
SpecCrash == InitPopulate /\ [][NextPopulate \/ Crash]_vars

Spec == Init /\ [][Next]_vars

-----------------------------------------------------------------------------
(* Claims checked under Spec *)

\* The distinct non-blank trimmed values of a column among the rows read.
DistinctCustomers == {Strip(consumed[i].cust) : i \in 1..Len(consumed)} \ {<<>>}
DistinctItems == {Strip(consumed[i].item) : i \in 1..Len(consumed)} \ {<<>>}

\* The position in the file of the first row that carries item name n.
FirstRowOf(n) ==
  CHOOSE i \in 1..Len(consumed) :
    /\ Strip(consumed[i].item) = n
    /\ \A j \in 1..(i - 1) : Strip(consumed[j].item) # n

ProductAttempts == SelectSeq(attempts, LAMBDA a : a.table = "products")

ReadLoopDone == pc # "read"
ProductLoopDone == pc \notin {"read", "products"}

\* C1: the Store Synthesizer emits one tuple per distinct non-blank trimmed
\* Customer Name, and the Populator builds one Product entry, and attempts one
\* product insert, per distinct non-blank trimmed Item Name; no name is
\* processed twice.
C1_Deduplication ==
  /\ job = "stores" /\ pc = "done" =>
       /\ Len(out.rows) = Cardinality(DistinctCustomers)
       /\ out.creating = Cardinality(DistinctCustomers)
       /\ \A n \in DistinctCustomers :
            Cardinality({k \in 1..Len(out.rows) : out.rows[k].name = SqlName(n)}) = 1
  /\ job = "populate" =>
       /\ Len(products) = Cardinality(DistinctItems)
       /\ \A n \in DistinctItems :
            Cardinality({k \in 1..Len(products) : products[k].name = n}) = 1
  /\ job = "populate" /\ ProductLoopDone =>
       /\ Len(ProductAttempts) = Cardinality(DistinctItems)
       /\ \A n \in DistinctItems :
            Cardinality({k \in 1..Len(ProductAttempts) :
                           ProductAttempts[k].name = n}) = 1

\* C1 witness: three rows carry the same name, padded differently or not, and
\* the run ends with one product and one product insert.
C1_Witness ==
  /\ job = "populate" /\ pc = "done" /\ Len(consumed) = MaxRows
  /\ \E i, j \in 1..Len(consumed) :
        consumed[i].item # consumed[j].item
        /\ Strip(consumed[i].item) = Strip(consumed[j].item)
  /\ Len(products) = 1 /\ Len(ProductAttempts) = 1

\* C2: every item name read so far has exactly one Product entry, which is the
\* one built from the first row of the file that carried the name.
C2_FirstRowWins ==
  job = "populate" =>
    \A n \in DistinctItems :
      /\ Cardinality({k \in 1..Len(products) : products[k].name = n}) = 1
      /\ ProductOf(n).price = ParsePrice(consumed[FirstRowOf(n)].price)
      /\ ProductOf(n) = NewProduct(n, consumed[FirstRowOf(n)])

\* C2 witness: two rows share a name and differ in price; the read loop is
\* over and the product has the price of the first.
C2_Witness ==
  /\ job = "populate" /\ ReadLoopDone
  /\ \E i, j \in 1..Len(consumed) :
        /\ i < j
        /\ Strip(consumed[i].item) = Strip(consumed[j].item)
        /\ Strip(consumed[i].item) # <<>>
        /\ ParsePrice(consumed[i].price) # ParsePrice(consumed[j].price)
        /\ FirstRowOf(Strip(consumed[i].item)) = i
        /\ ProductOf(Strip(consumed[i].item)).price = ParsePrice(consumed[i].price)

\* The customer name a printed tuple was built from.
CustomerOf(tuple) == CHOOSE n \in DistinctCustomers : SqlName(n) = tuple.name

\* C9: the Store Synthesizer prints its tuples in ascending order of customer
\* name, and the Populator issues its product inserts in the order in which
\* the names first occur in the file.
C9_EmissionOrder ==
  /\ job = "stores" /\ pc = "done" =>
       /\ \A k \in 1..Len(out.rows) : \E n \in DistinctCustomers : SqlName(n) = out.rows[k].name
       /\ \A k, l \in 1..Len(out.rows) :
            k < l => StrLess(CustomerOf(out.rows[k]), CustomerOf(out.rows[l]))
  /\ job = "populate" =>
       /\ \A k \in 1..Len(ProductAttempts) : ProductAttempts[k].name \in DistinctItems
       /\ \A k, l \in 1..Len(ProductAttempts) :
            k < l => FirstRowOf(ProductAttempts[k].name) < FirstRowOf(ProductAttempts[l].name)

\* C9 witness: the file names a customer before one that sorts first, and the
\* tuples are printed in sorted order.
C9_Witness ==
  /\ job = "stores" /\ pc = "done" /\ Len(out.rows) >= 2
  /\ \E i, j \in 1..Len(consumed) :
        /\ i < j
        /\ Strip(consumed[j].cust) # <<>>
        /\ StrLess(Strip(consumed[j].cust), Strip(consumed[i].cust))
        /\ out.rows[1].name = SqlName(Strip(consumed[j].cust))

-----------------------------------------------------------------------------
(* Claims checked under SpecItems *)

\* The rows read so far that line 47 collects, in file order: the trimmed
\* Item Name and the Invoice ID are both non-empty.
CollectedRows ==
  SelectSeq(consumed, LAMBDA r : Strip(r.item) # <<>> /\ r.inv # <<>>)

NumbersParse(row) ==
  ParseFloat(row.qty).ok /\ ParseFloat(StripCurrency(row.total)).ok

\* C5 as stated: every row read whose Item Name and Invoice ID are non-empty
\* has contributed exactly one invoice item.
C5_Original ==
  job = "populate" =>
    Len(invoice_items) =
      Cardinality({i \in 1..Len(consumed) :
                     consumed[i].item # <<>> /\ consumed[i].inv # <<>>})

\* C5 (amended): every row read whose Item Name is non-blank after trimming
\* and whose Invoice ID is non-empty has contributed exactly one invoice item,
\* in file order, whether or not its numeric fields parse; quantity and total
\* are 1 and 0 when either does not parse; a product whose first row has an
\* unparseable Item Price has price 0; the read loop ends only when the file is
\* exhausted.
C5_MalformedNumbersKeepRows ==
  job = "populate" =>
    /\ Len(invoice_items) = Len(CollectedRows)
    /\ \A k \in 1..Len(invoice_items) :
         LET row == CollectedRows[k]
         IN  /\ invoice_items[k].invoice_id = row.inv
             /\ invoice_items[k].product_name = Strip(row.item)
             /\ NumbersParse(row) =>
                  /\ invoice_items[k].quantity = ParseFloat(row.qty).val
                  /\ invoice_items[k].total = ParseFloat(StripCurrency(row.total)).val
             /\ ~NumbersParse(row) =>
                  /\ invoice_items[k].quantity = 100
                  /\ invoice_items[k].total = 0
    /\ \A n \in DistinctItems :
         ~ParseFloat(StripCurrency(consumed[FirstRowOf(n)].price)).ok
            => ProductOf(n).price = 0
    /\ pc # "read" => reader = <<>>

\* C5 witness: a row whose quantity does not parse was collected with the
\* defaults, and a later row was collected after it.
C5_Witness ==
  /\ job = "populate"
  /\ \E k \in 1..Len(invoice_items) :
        /\ ~ParseFloat(CollectedRows[k].qty).ok
        /\ invoice_items[k].quantity = 100 /\ invoice_items[k].total = 0
        /\ k < Len(invoice_items)
  /\ \E n \in DistinctItems :
        /\ ~ParseFloat(StripCurrency(consumed[FirstRowOf(n)].price)).ok
        /\ ProductOf(n).price = 0

ItemAttempts == SelectSeq(attempts, LAMBDA a : a.table = "invoice_items")

AttemptedItems == {ItemAttempts[k].at : k \in 1..Len(ItemAttempts)}

ItemLoopDone == pc \in {"recos", "scan", "recocommit", "final", "done"}

\* C10 as stated: once the invoice item loop is over, the items for which an
\* insert was attempted are those for which the matcher found an order.
C10_Original ==
  job = "populate" /\ ItemLoopDone =>
    AttemptedItems =
      {k \in 1..Len(invoice_items) :
         FindOrder(invoice_items[k].invoice_id, order_map).found}

\* C10 (amended): every collected invoice item names a key of products and
\* carries the price stored for that product, which is the price parsed from
\* the first row with that name; so the membership test of line 106 is always
\* true, and an insert is attempted exactly for the items whose selected order
\* id is truthy: an order was matched and its id is not 0.
C10_ItemsReferToProducts ==
  job = "populate" =>
    /\ \A k \in 1..Len(invoice_items) :
         LET item == invoice_items[k]
         IN  /\ item.product_name \in ProductNames
             /\ item.price = ProductOf(item.product_name).price
             /\ item.price =
                  ParsePrice(consumed[FirstRowOf(item.product_name)].price)
    /\ ItemLoopDone =>
         AttemptedItems =
           {k \in 1..Len(invoice_items) :
              LET o == FindOrder(invoice_items[k].invoice_id, order_map)
              IN  o.found /\ o.id # 0}

\* C10 witness: an item of a row whose own Item Price differs from the price of
\* its product was collected, and its insert was attempted.
C10_Witness ==
  /\ job = "populate" /\ ItemLoopDone
  /\ \E k \in AttemptedItems :
        ParsePrice(CollectedRows[k].price) # invoice_items[k].price

-----------------------------------------------------------------------------
(* Claim checked under SpecMatch *)

\* The entries of order_map whose order number contains the invoice id or is
\* contained in it.
Hits(invoice_id) ==
  {i \in 1..Len(order_map) :
     \/ Contains(order_map[i].num, invoice_id)
     \/ Contains(invoice_id, order_map[i].num)}

FirstHit(invoice_id) ==
  CHOOSE i \in Hits(invoice_id) : \A j \in Hits(invoice_id) : i <= j

\* C3: for every invoice item the matcher selects the id of the first entry of
\* order_map, in iteration order, whose order number contains the invoice id or
\* is contained in it, and none when there is no such entry; the insert of an
\* item is sent with that id, and no insert is attempted for an item with no
\* order selected.
C3_FirstMatchWins ==
  job = "populate" =>
    \A k \in 1..Len(invoice_items) :
      LET inv == invoice_items[k].invoice_id
          o   == FindOrder(inv, order_map)
      IN  /\ Hits(inv) = {} => ~o.found /\ k \notin AttemptedItems
          /\ Hits(inv) # {} =>
               /\ o.found
               /\ o.id = order_map[FirstHit(inv)].id
               /\ \A a \in 1..Len(ItemAttempts) :
                    ItemAttempts[a].at = k =>
                      ItemAttempts[a].order_id = order_map[FirstHit(inv)].id

\* C3 witness: with order numbers INV-100 -> 1 and INV-200 -> 2, the item of
\* invoice INV-1000X was sent with order id 1.
C3_Witness ==
  /\ job = "populate" /\ ItemLoopDone
  /\ order_map = <<[id |-> 1, num |-> sInv100], [id |-> 2, num |-> sInv200]>>
  /\ Len(invoice_items) = 1 /\ invoice_items[1].invoice_id = sInv1000X
  /\ Len(ItemAttempts) = 1 /\ ItemAttempts[1].order_id = 1

-----------------------------------------------------------------------------
(* Claim checked under SpecIds *)

\* x + 4261931000000000000 on limbs.
PlusOffset(x) == <<x[1] + 4261931, x[2], x[3]>>

\* 0 <= x < 10^18 on limbs.
Below1e18(x) ==
  /\ 0 <= x[1] /\ x[1] < 10^6
  /\ 0 <= x[2] /\ x[2] < 10^6
  /\ 0 <= x[3] /\ x[3] < 10^6

\* C4: a product id is H mod 10^18 and lies in [0, 10^18); a store id is
\* H mod 10^18 plus 4261931000000000000; so no store id equals a product id,
\* for the same name or for two names.  The ids the scripts emit are these.
C4_DisjointIdRanges ==
  /\ \A a \in DOMAIN md5 :
       /\ Below1e18(ProductId(md5[a]))
       /\ ProductId(md5[a]) = <<md5[a][1] % 10^6, md5[a][2], md5[a][3]>>
       /\ StoreId(md5[a]) = PlusOffset(ProductId(md5[a]))
       /\ \A b \in DOMAIN md5 :
            /\ StoreId(md5[a]) # ProductId(md5[b])
            /\ LimbLess(ProductId(md5[b]), StoreId(md5[a]))
  /\ \A k \in 1..Len(values) :
       \E n \in DOMAIN md5 :
          /\ values[k].name = SqlName(n)
          /\ values[k].id = PlusOffset(<<md5[n][1] % 10^6, md5[n][2], md5[n][3]>>)
  /\ \A k \in 1..Len(products) :
       /\ Below1e18(products[k].id)
       /\ products[k].id = <<md5[products[k].name][1] % 10^6,
                             md5[products[k].name][2], md5[products[k].name][3]>>

\* C4 witness: a store tuple was printed for a name whose digest prefix is
\* 10^18 or more, so that the reduction changed it.
C4_Witness ==
  /\ job = "stores" /\ pc = "done"
  /\ \E k \in 1..Len(out.rows) : \E n \in DOMAIN md5 :
        /\ out.rows[k].name = SqlName(n)
        /\ md5[n][1] >= 10^6
        /\ out.rows[k].id = StoreId(md5[n])
        /\ out.rows[k].id[1] < md5[n][1] + 4261931

-----------------------------------------------------------------------------
(* Claim checked under SpecReco *)

RecoStatementDone == pc \in {"recocommit", "final", "done"}

\* The bounds on the rows of one run of the recommendation statement.
RecoBounded ==
  /\ scan.inserted <= scan.emitted
  /\ scan.emitted <= RowLimit
  /\ scan.emitted <= CrossJoinSize
  /\ scan.emitted <= scan.i
  /\ RecoStatementDone =>
       /\ tx.recos = Cardinality(tx.recoKeys) + scan.inserted
       /\ tx.recos - db.recos <= RowLimit
       /\ tx.recos - db.recos <= Len(tx.orders) * Cardinality(tx.products)
  /\ pc = "done" =>
       out.upselling_recommendations = Cardinality(tx.recoKeys) + scan.inserted

\* A step that emits a row: the row is a combination of an existing order and
\* an existing product that no earlier row of the statement used, and a
\* combination a uniqueness constraint rejects is skipped without an error.
RecoRowStep ==
  scan'.emitted # scan.emitted =>
    /\ scan'.emitted = scan.emitted + 1
    /\ scan'.last[1] \in 1..Len(tx.orders)
    /\ scan'.last[2] \in 1..Cardinality(tx.products)
    /\ (scan'.last[1] - 1) * Cardinality(tx.products) + scan'.last[2] = scan'.i
    /\ scan'.i = scan.i + 1
    /\ scan'.last \in tx.recoKeys =>
         scan'.inserted = scan.inserted /\ ~txFailed' /\ pc' = "scan"
    /\ scan'.last \notin tx.recoKeys => scan'.inserted = scan.inserted + 1

\* C7: one run generates at most 500 recommendation rows and at most
\* |orders| * |products|; each row is one (order, product) combination of the
\* existing tables, none used twice (the scan only moves on); a combination that would violate a
\* uniqueness constraint is skipped and the statement goes on.
C7_RecommendationsBounded == []RecoBounded /\ [][RecoRowStep]_vars

\* C7 witness: the cross join is larger than the limit, the scan stopped at
\* 500 rows with combinations left, and a duplicate was skipped.
C7_Witness ==
  /\ pc = "done"
  /\ scan.emitted = RowLimit
  /\ scan.i < CrossJoinSize
  /\ scan.inserted < scan.emitted
  /\ out.upselling_recommendations = RowLimit

-----------------------------------------------------------------------------
(* Claim checked under Spec: per-row failures *)

\* Once a loop is over, every product built and every invoice item for which
\* the matcher found an order has had its insert statement sent.
AllAttempted ==
  job = "populate" =>
    /\ ProductLoopDone =>
         \A i \in 1..Len(products) :
            \E k \in 1..Len(ProductAttempts) : ProductAttempts[k].at = i
    /\ ItemLoopDone =>
         \A i \in 1..Len(invoice_items) :
            FindOrder(invoice_items[i].invoice_id, order_map).found
              => i \in AttemptedItems

\* The batch is not aborted: the rows the statements of a phase inserted are
\* in their table once the commit that ends the phase has returned.
BatchKept ==
  commits' = commits + 1 =>
    /\ tx.products \subseteq db'.products
    /\ Len(tx.items) <= Len(db'.items)
    /\ \A i \in 1..Len(tx.items) : db'.items[i] = tx.items[i]

\* C6 as stated: a failing per-row insert does not abort the batch; the
\* failure is caught, every remaining product and every remaining matched
\* invoice item still gets its insert attempt, and the rows of the statements
\* that did not fail are kept by the commit that ends the phase.
C6_Original == []AllAttempted /\ [][BatchKept]_vars

-----------------------------------------------------------------------------
(* Claim checked under SpecCrash *)

CommitStep == commits' = commits + 1

CrashStep == pc # "crashed" /\ pc' = "crashed"

PhaseOrder ==
  { <<"read", "products">>, <<"products", "orders">>, <<"orders", "items">>,
    <<"items", "recos">>, <<"recos", "scan">>, <<"scan", "recocommit">>,
    <<"recocommit", "final">>, <<"final", "done">> }

\* The durable state changes at commits only, a commit makes durable the
\* effect of the statements issued before it, a crash keeps the durable state
\* and drops the open work, and the phases follow one another in order, each
\* writing its own table.
ConsistencyStep ==
  /\ db' # db => CommitStep
  /\ CommitStep => db' = tx
  /\ CrashStep => db' = db /\ tx' = db
  /\ pc' # pc /\ ~CrashStep => <<pc, pc'>> \in PhaseOrder
  /\ ~CrashStep /\ ~CommitStep =>
       /\ tx'.products # tx.products => pc = "products"
       /\ tx'.items # tx.items => pc = "items"
       /\ tx'.recos # tx.recos => pc = "scan"

\* A crash during the invoice item loop leaves no invoice item durable.
CrashInItemsKeepsNone == crashed = "items" => db.items = <<>>

\* C8 as stated: the commit points are the only consistency boundaries; the
\* durable state is at every point the effect of the statements issued before
\* the most recent commit; a crash loses the work since that commit and
\* nothing before it; the phases are strictly ordered.
C8_Original == []CrashInItemsKeepsNone /\ [][ConsistencyStep]_vars

=============================================================================
